---- MODULE Spec2Model ----
(***************************************************************************)
(* PoseSandbox: pose serialization, pose application and pack import       *)
(* (src/poses/pose-io.js), with the collaborators it is wired to           *)
(* (Character.resetAllJointRotations in src/controls/modes.js), and the    *)
(* ModesController of src/controls/modes.js.                               *)
(*                                                                         *)
(* JavaScript strings that the code inspects (prop names, type tags, file  *)
(* names) are sequences of one-character strings, so that toLowerCase,     *)
(* trim, includes and endsWith are computed, not assumed.  Strings that    *)
(* the code only copies or compares (joint names, notes, messages) are     *)
(* plain TLA+ strings.                                                     *)
(***************************************************************************)
EXTENDS Integers, Sequences, FiniteSets, TLC

VARIABLES
    world,        \* [joints: Seq([name, quaternion]), props: Seq(prop)]
    scene,        \* ids of the props attached to the THREE.Scene
    poseNotesEl,  \* value of the notes <textarea>
    last,         \* record of the most recent applyPose / applyPoseJointsOnly call
    imp,          \* importPosePack calls in flight: call id -> activation record
    gallery,      \* what saveToGallery has stored, in order
    trace,        \* steps of the import pipeline, in order
    modes,        \* the ModesController with its gizmo and orbit controls
    modesCall     \* record of the most recent call or event of the controller

poseVars == <<world, scene, poseNotesEl, last>>
importVars == <<imp, gallery, trace>>
modesVars == <<modes, modesCall>>
vars == <<world, scene, poseNotesEl, last, imp, gallery, trace, modes, modesCall>>

(***************************************************************************)
(* Bounds of the model.                                                    *)
(***************************************************************************)
\* longest props list of a pose document, and of an initial world
MaxProps == 2
\* longest batch handed to importPosePack
MaxFiles == 3

(***************************************************************************)
(* Strings.                                                                *)
(***************************************************************************)
UpperChars == <<"A","B","C","D","E","F","G","H","I","J","K","L","M",
                "N","O","P","Q","R","S","T","U","V","W","X","Y","Z">>
LowerChars == <<"a","b","c","d","e","f","g","h","i","j","k","l","m",
                "n","o","p","q","r","s","t","u","v","w","x","y","z">>
WhiteChars == {" ", "\t", "\n"}

\* String.prototype.toLowerCase, one character
LowerChar(c) ==
    IF \E i \in 1..Len(UpperChars) : UpperChars[i] = c
    THEN LowerChars[CHOOSE i \in 1..Len(UpperChars) : UpperChars[i] = c]
    ELSE c

\* String.prototype.toLowerCase
toLowerCase(s) == [i \in 1..Len(s) |-> LowerChar(s[i])]

\* String.prototype.trim
RECURSIVE trimStart(_)
trimStart(s) ==
    IF s # <<>> /\ Head(s) \in WhiteChars THEN trimStart(Tail(s)) ELSE s

RECURSIVE trimEnd(_)
trimEnd(s) ==
    IF s # <<>> /\ s[Len(s)] \in WhiteChars
    THEN trimEnd(SubSeq(s, 1, Len(s) - 1))
    ELSE s

trim(s) == trimEnd(trimStart(s))

\* String.prototype.includes
includes(s, sub) ==
    \E i \in 0..(Len(s) - Len(sub)) : SubSeq(s, i + 1, i + Len(sub)) = sub

\* String.prototype.endsWith
endsWith(s, suf) ==
    /\ Len(suf) <= Len(s)
    /\ SubSeq(s, Len(s) - Len(suf) + 1, Len(s)) = suf

\* the keywords and the type names of inferTypeFromLegacyName
sphere == <<"s","p","h","e","r","e">>
cube == <<"c","u","b","e">>
box == <<"b","o","x">>
cyl == <<"c","y","l">>
cylinder == <<"c","y","l","i","n","d","e","r">>
cone == <<"c","o","n","e">>
torus == <<"t","o","r","u","s">>
ring == <<"r","i","n","g">>
disc == <<"d","i","s","c">>
circle == <<"c","i","r","c","l","e">>
plane == <<"p","l","a","n","e">>
icosa == <<"i","c","o","s","a">>
octa == <<"o","c","t","a">>
dodeca == <<"d","o","d","e","c","a">>
tetra == <<"t","e","t","r","a">>

\* mutant of inferTypeFromLegacyName: the name is not lowercased
inferTypeFromLegacyName_caseSensitive(name) ==
    LET n == name IN
    IF includes(n, sphere) THEN sphere
    ELSE IF includes(n, cube) \/ includes(n, box) THEN cube
    ELSE IF includes(n, cyl) THEN cylinder
    ELSE IF includes(n, cone) THEN cone
    ELSE IF includes(n, torus) THEN torus
    ELSE IF includes(n, ring) THEN ring
    ELSE IF includes(n, disc) \/ includes(n, circle) THEN disc
    ELSE IF includes(n, plane) THEN plane
    ELSE IF includes(n, icosa) THEN icosa
    ELSE IF includes(n, octa) THEN octa
    ELSE IF includes(n, dodeca) THEN dodeca
    ELSE IF includes(n, tetra) THEN tetra
    ELSE cube

\* inferTypeFromLegacyName(p), given p?.name || "" (the empty string when
\* p is null or has no name)
inferTypeFromLegacyName(name) ==
    LET n == toLowerCase(name) IN
    IF includes(n, sphere) THEN sphere
    ELSE IF includes(n, cube) \/ includes(n, box) THEN cube
    ELSE IF includes(n, cyl) THEN cylinder
    ELSE IF includes(n, cone) THEN cone
    ELSE IF includes(n, torus) THEN torus
    ELSE IF includes(n, ring) THEN ring
    ELSE IF includes(n, disc) \/ includes(n, circle) THEN disc
    ELSE IF includes(n, plane) THEN plane
    ELSE IF includes(n, icosa) THEN icosa
    ELSE IF includes(n, octa) THEN octa
    ELSE IF includes(n, dodeca) THEN dodeca
    ELSE IF includes(n, tetra) THEN tetra
    ELSE cube

(***************************************************************************)
(* Values of the live world and of a pose document.                        *)
(***************************************************************************)
\* THREE.Quaternion as toArray() gives it, [x, y, z, w]
Identity == <<0, 0, 0, 1>>
QA == <<1, 0, 0, 0>>
QB == <<0, 1, 0, 0>>

\* a field that is not there (undefined); no input holds an empty array
Undefined == <<>>

\* two of the joints Character.build creates, in creation order
JointNames == <<"hips", "neck">>

\* THREE.Quaternion.fromArray / Vector3.fromArray: the leading components
QuaternionFromArray(a) == SubSeq(a, 1, 4)
Vector3FromArray(a) == SubSeq(a, 1, 3)

\* the object addProp(type) creates: a THREE object with default transform
NewProp(id) ==
    [id |-> id, type |-> <<>>, isProp |-> FALSE, name |-> <<>>,
     position |-> <<0, 0, 0>>, quaternion |-> Identity, scale |-> <<1, 1, 1>>]

\* the types a factory that knows only the shape vocabulary can build
Vocabulary ==
    {sphere, cube, cylinder, cone, torus, ring, disc, plane, icosa, octa,
     dodeca, tetra}

PropIds(props) == {props[i].id : i \in 1..Len(props)}

\* identity of a newly allocated object: none of the objects still around
FreshId(used) == CHOOSE i \in 1..(Cardinality(used) + 1) : i \notin used

\* one entry of the call's effect log
Ev(ev, arg, n) == [ev |-> ev, arg |-> arg, n |-> n]

(***************************************************************************)
(* serializePose                                                           *)
(***************************************************************************)
\* line 50: String(p?.userData?.type || inferTypeFromLegacyName(p))
SerializedType(p) ==
    IF p.type # <<>> THEN p.type ELSE inferTypeFromLegacyName(p.name)

\* lines 44-47: joints[j.name] = j.quaternion.toArray(), last write wins
SerializeJoints(joints) ==
    [n \in {joints[i].name : i \in 1..Len(joints)} |->
        LET k == CHOOSE k \in 1..Len(joints) :
                    /\ joints[k].name = n
                    /\ \A m \in (k + 1)..Len(joints) : joints[m].name # n
        IN  [arr |-> TRUE, v |-> joints[k].quaternion]]

\* mutant of SerializeProp: the scale is not captured
SerializeProp_noScale(p) ==
    [null |-> FALSE, type |-> SerializedType(p), name |-> p.name,
     position |-> p.position, quaternion |-> p.quaternion, scale |-> Undefined]

\* lines 49-55
SerializeProp(p) ==
    [null |-> FALSE, type |-> SerializedType(p), name |-> p.name,
     position |-> p.position, quaternion |-> p.quaternion, scale |-> p.scale]

\* serializePose({world, poseNotesEl}) for a world that has both collections;
\* notesEl says whether a notes element was passed, notes is its value
serializePose(w, notesEl, notes) ==
    [kind |-> "object",
     joints |-> [t |-> "object", m |-> SerializeJoints(w.joints)],
     props |-> [arr |-> TRUE,
                v |-> [i \in 1..Len(w.props) |-> SerializeProp(w.props[i])]],
     notes |-> [str |-> TRUE, v |-> IF notesEl THEN notes ELSE ""]]

(***************************************************************************)
(* applyPose                                                               *)
(***************************************************************************)
\* line 87: Array.isArray(q) && q.length === 4, q = data.joints[j.name]
IsQuatEntry(m, name) ==
    /\ name \in DOMAIN m
    /\ m[name].arr
    /\ Len(m[name].v) = 4

\* mutant of ApplyJoints: a joint the document does not match is reset
ApplyJoints_resetUnmatched(joints, m) ==
    [i \in 1..Len(joints) |->
        IF IsQuatEntry(m, joints[i].name)
        THEN [joints[i] EXCEPT !.quaternion = QuaternionFromArray(m[joints[i].name].v)]
        ELSE [joints[i] EXCEPT !.quaternion = Identity]]

\* lines 85-88 (and 148-154): the forEach over world.joints
ApplyJoints(joints, m) ==
    [i \in 1..Len(joints) |->
        IF IsQuatEntry(m, joints[i].name)
        THEN [joints[i] EXCEPT !.quaternion = QuaternionFromArray(m[joints[i].name].v)]
        ELSE joints[i]]

\* the log of that forEach: one entry per joint written, in joint order
RECURSIVE JointLog(_, _)
JointLog(joints, m) ==
    IF joints = <<>> THEN <<>>
    ELSE (IF IsQuatEntry(m, Head(joints).name)
          THEN <<Ev("joint", Head(joints).name, 0)>> ELSE <<>>)
         \o JointLog(Tail(joints), m)

\* line 101: String(pd?.type || "").trim().toLowerCase() || inferTypeFromLegacyName(pd)
DescriptorType(pd) ==
    LET t == toLowerCase(trim(IF pd.null THEN <<>> ELSE pd.type)) IN
    IF t # <<>> THEN t
    ELSE inferTypeFromLegacyName(IF pd.null THEN <<>> ELSE pd.name)

\* addProp(t) (line 9): pushes one new prop into world.props and the scene.
\* factory "appends" keeps that contract for every type; factory "picky"
\* builds only the shape vocabulary and appends nothing for another type.
AddProp(st, factory, t, used) ==
    IF factory = "appends" \/ t \in Vocabulary
    THEN LET id == FreshId(used \cup PropIds(st.props) \cup st.scene) IN
         [st EXCEPT !.props = Append(@, NewProp(id)),
                    !.scene = @ \cup {id},
                    !.log = Append(@, Ev("addProp", "", id))]
    ELSE [st EXCEPT !.log = Append(@, Ev("addProp", "", 0))]

\* lines 107-115: what the descriptor writes to the prop it is applied to
WriteProp(p, pd, t) ==
    LET p1 == [p EXCEPT !.type = t, !.isProp = TRUE]
        p2 == IF pd.position # Undefined
              THEN [p1 EXCEPT !.position = Vector3FromArray(pd.position)] ELSE p1
        p3 == IF pd.quaternion # Undefined
              THEN [p2 EXCEPT !.quaternion = QuaternionFromArray(pd.quaternion)] ELSE p2
        p4 == IF pd.scale # Undefined
              THEN [p3 EXCEPT !.scale = Vector3FromArray(pd.scale)] ELSE p3
    IN  IF pd.name # <<>> THEN [p4 EXCEPT !.name = pd.name] ELSE p4

\* lines 98-116: the callback of data.props.forEach, for one descriptor.
\* st = [props, scene, log, threw]; a null descriptor raises a TypeError at
\* line 112, after the type tag has been written.
ApplyDescriptor(st, pd, factory, used) ==
    IF st.threw \/ factory = "none" THEN st
    ELSE
      LET t == DescriptorType(pd)
          s1 == AddProp(st, factory, t, used)
          n == Len(s1.props)
      IN  IF n = 0 THEN s1
          ELSE IF pd.null
          THEN [s1 EXCEPT !.props[n] = [@ EXCEPT !.type = t, !.isProp = TRUE],
                          !.log = Append(@, Ev("setProp", "", s1.props[n].id)),
                          !.threw = TRUE]
          ELSE [s1 EXCEPT !.props[n] = WriteProp(@, pd, t),
                          !.log = Append(@, Ev("setProp", "", s1.props[n].id))]

RECURSIVE ApplyDescriptors(_, _, _, _)
ApplyDescriptors(st, pds, factory, used) ==
    IF pds = <<>> THEN st
    ELSE ApplyDescriptors(ApplyDescriptor(st, Head(pds), factory, used),
                          Tail(pds), factory, used)

\* lines 94-95: scene.remove(p) for every live prop, then world.props.length = 0
RemoveLog(props) ==
    [i \in 1..Len(props) |-> Ev("scene.remove", "", props[i].id)]
        \o <<Ev("props.clear", "", 0)>>

\* mutant of ApplyProps: the new props are added to the old ones (a merge)
ApplyProps_merge(st, data, factory) ==
    IF data.props.arr
    THEN ApplyDescriptors(st, data.props.v, factory, PropIds(st.props) \cup st.scene)
    ELSE st

\* lines 92-117: the prop step; st = [props, scene, log, threw]
ApplyProps(st, data, factory) ==
    IF data.props.arr
    THEN LET used == PropIds(st.props) \cup st.scene IN
         ApplyDescriptors(
            [props |-> <<>>, scene |-> st.scene \ PropIds(st.props),
             log |-> st.log \o RemoveLog(st.props), threw |-> FALSE],
            data.props.v, factory, used)
    ELSE st

\* mutant of ApplyPoseError: the scene is not checked before the mutations
ApplyPoseError_noSceneCheck(data, deps) ==
    IF data.kind # "object" THEN "Invalid pose JSON"
    ELSE IF deps.world # "ok" THEN "applyPose: missing world"
    ELSE ""

\* lines 79-81: the error applyPose raises before it touches anything, or ""
ApplyPoseError(data, deps) ==
    IF data.kind # "object" THEN "Invalid pose JSON"
    ELSE IF deps.world # "ok" THEN "applyPose: missing world"
    ELSE IF ~deps.scene THEN "applyPose: missing scene"
    ELSE ""

\* mutant of HookLog: the notification is emitted before the refresh hooks
HookLog_toastFirst(deps, toast, n) ==
    (IF deps.showToast THEN <<Ev("showToast", toast, n)>> ELSE <<>>)
    \o (IF deps.updateOutline THEN <<Ev("updateOutline", "", 0)>> ELSE <<>>)
    \o (IF deps.forceRenderOnce THEN <<Ev("forceRenderOnce", "", 0)>> ELSE <<>>)

\* lines 125-128: the hooks that run after the mutations
HookLog(deps, toast, n) ==
    (IF deps.updateOutline THEN <<Ev("updateOutline", "", 0)>> ELSE <<>>)
    \o (IF deps.forceRenderOnce THEN <<Ev("forceRenderOnce", "", 0)>> ELSE <<>>)
    \o (IF deps.showToast THEN <<Ev("showToast", toast, n)>> ELSE <<>>)

\* applyPose(data, deps) run on the live state (w, sc, notes): the state it
\* leaves, whether it raised, and what it did in order
applyPose(w, sc, notes, data, deps) ==
    LET err == ApplyPoseError(data, deps) IN
    IF err # ""
    THEN [threw |-> TRUE, error |-> err, world |-> w, scene |-> sc,
          notes |-> notes, log |-> <<>>, ret |-> 0]
    ELSE
      LET jm == data.joints.t = "object"
          joints1 == IF jm THEN ApplyJoints(w.joints, data.joints.m) ELSE w.joints
          log1 == IF jm THEN JointLog(w.joints, data.joints.m) ELSE <<>>
          st == ApplyProps([props |-> w.props, scene |-> sc, log |-> log1,
                            threw |-> FALSE], data, deps.addProp)
          w1 == [joints |-> joints1, props |-> st.props]
          setNotes == deps.poseNotesEl /\ data.notes.str
      IN  IF st.threw
          THEN [threw |-> TRUE, error |-> "TypeError", world |-> w1,
                scene |-> st.scene, notes |-> notes, log |-> st.log, ret |-> 0]
          ELSE [threw |-> FALSE, error |-> "", world |-> w1, scene |-> st.scene,
                notes |-> IF setNotes THEN data.notes.v ELSE notes,
                log |-> st.log
                        \o (IF setNotes THEN <<Ev("poseNotesEl", data.notes.v, 0)>>
                            ELSE <<>>)
                        \o HookLog(deps, "Pose loaded", 0),
                ret |-> 0]

(***************************************************************************)
(* applyPoseJointsOnly                                                     *)
(***************************************************************************)
\* mutant of resetAllJointRotations: only the root joint is reset
resetAllJointRotations_rootOnly(joints) ==
    [i \in 1..Len(joints) |->
        IF i = 1 THEN [joints[i] EXCEPT !.quaternion = Identity] ELSE joints[i]]

\* Character.resetAllJointRotations: every joint back to identity
resetAllJointRotations(joints) ==
    [i \in 1..Len(joints) |-> [joints[i] EXCEPT !.quaternion = Identity]]

\* lines 140-142: the error raised before anything is touched, or ""
JointsOnlyError(data, deps) ==
    IF data.kind # "object" THEN "Invalid preset/pose object"
    ELSE IF data.joints.t # "object" THEN "Pose missing joints"
    ELSE IF deps.world \in {"missing", "nojoints"}
    THEN "applyPoseJointsOnly: missing world"
    ELSE ""

\* mutant of AppliedCount: every joint the document names is counted
AppliedCount_anyEntry(joints, m) ==
    Cardinality({i \in 1..Len(joints) : joints[i].name \in DOMAIN m})

\* lines 147-154: appliedCount, one per joint written
AppliedCount(joints, m) ==
    Cardinality({i \in 1..Len(joints) : IsQuatEntry(m, joints[i].name)})

\* mutant of PresetToast: the count-bearing message also for a count of 0
PresetToast_alwaysCount(n) == "Preset loaded (n joints)"

\* lines 160-161: the message of the toast, n being the count it carries
PresetToast(n) ==
    IF n = 0 THEN "Preset loaded (no matching joints)"
    ELSE "Preset loaded (n joints)"

\* mutant of applyPoseJointsOnly: after validation and reset the document is
\* handed to the full apply
applyPoseJointsOnly_fullApply(w, sc, notes, data, deps) ==
    LET err == JointsOnlyError(data, deps) IN
    IF err # ""
    THEN [threw |-> TRUE, error |-> err, world |-> w, scene |-> sc,
          notes |-> notes, log |-> <<>>, ret |-> 0]
    ELSE
      LET joints0 == IF deps.resetAllJointRotations
                     THEN resetAllJointRotations(w.joints) ELSE w.joints
          r == applyPose([w EXCEPT !.joints = joints0], sc, notes, data,
                         [deps EXCEPT !.world = "ok", !.scene = TRUE])
      IN  [r EXCEPT !.ret = AppliedCount(joints0, data.joints.m)]

\* lines 131-165
applyPoseJointsOnly(w, sc, notes, data, deps) ==
    LET err == JointsOnlyError(data, deps) IN
    IF err # ""
    THEN [threw |-> TRUE, error |-> err, world |-> w, scene |-> sc,
          notes |-> notes, log |-> <<>>, ret |-> 0]
    ELSE
      LET joints0 == IF deps.resetAllJointRotations
                     THEN resetAllJointRotations(w.joints) ELSE w.joints
          log0 == IF deps.resetAllJointRotations
                  THEN <<Ev("resetAllJointRotations", "", 0)>> ELSE <<>>
          joints1 == ApplyJoints(joints0, data.joints.m)
          n == AppliedCount(joints0, data.joints.m)
      IN  [threw |-> FALSE, error |-> "",
           world |-> [w EXCEPT !.joints = joints1], scene |-> sc,
           notes |-> notes,
           log |-> log0 \o JointLog(joints0, data.joints.m)
                   \o HookLog(deps, PresetToast(n), n),
           ret |-> n]

(***************************************************************************)
(* ModesController (src/controls/modes.js): mode switching, axis locks and *)
(* rotate snap, with the OrbitControls and TransformControls it drives.    *)
(***************************************************************************)
DigitChars == <<"0","1","2","3","4","5","6","7","8","9">>

\* String(n) of an integer
RECURSIVE NumberToString(_)
NumberToString(n) ==
    IF n < 0 THEN <<"-">> \o NumberToString(0 - n)
    ELSE IF n < 10 THEN <<DigitChars[n + 1]>>
    ELSE NumberToString(n \div 10) \o <<DigitChars[(n % 10) + 1]>>

\* JavaScript values handed to setSnapDeg
Num(v) == [t |-> "number", v |-> v, s |-> <<>>]
NaN == [t |-> "NaN", v |-> 0, s |-> <<>>]
PosInfinity == [t |-> "Infinity", v |-> 0, s |-> <<>>]
JsString(s) == [t |-> "string", v |-> 0, s |-> s]
JsNull == [t |-> "null", v |-> 0, s |-> <<>>]
JsUndefined == [t |-> "undefined", v |-> 0, s |-> <<>>]

IsDigits(s) ==
    /\ s # <<>>
    /\ \A i \in 1..Len(s) : \E d \in 1..Len(DigitChars) : DigitChars[d] = s[i]

RECURSIVE DigitsValue(_)
DigitsValue(s) ==
    IF s = <<>> THEN 0
    ELSE 10 * DigitsValue(SubSeq(s, 1, Len(s) - 1))
         + (CHOOSE d \in 0..9 : DigitChars[d + 1] = s[Len(s)])

\* Number(x), for numbers, null, undefined and strings that hold a decimal
\* integer, nothing, or text that is no numeric literal
Number(x) ==
    IF x.t \in {"number", "NaN", "Infinity"} THEN x
    ELSE IF x.t = "null" THEN Num(0)
    ELSE IF x.t = "undefined" THEN NaN
    ELSE LET u == trim(x.s) IN
         IF u = <<>> THEN Num(0)
         ELSE IF IsDigits(u) THEN Num(DigitsValue(u))
         ELSE IF Head(u) = "-" /\ IsDigits(Tail(u)) THEN Num(0 - DigitsValue(Tail(u)))
         ELSE NaN

\* Number.isFinite(n)
isFinite(n) == n.t = "number"

\* _degToRad(d) = d * PI / 180, kept as the fraction of PI
_degToRad(d) == [pi |-> d, over |-> 180]

\* setRotationSnap(null)
NoSnap == [pi |-> 0, over |-> 0]

\* the mode names setMode accepts
ModeNames == {"rotate", "move", "orbit", "scale"}

\* the controller's collaborators before the constructor touches them: a new
\* TransformControls (gizmo) and OrbitControls (orbit) as three.js builds
\* them, the buttons without their active class
RawModes(gizmo, orbit, toast, scaleBtn) ==
    [state |-> [mode |-> "rotate", axis |-> [x |-> TRUE, y |-> TRUE, z |-> TRUE],
                snapDeg |-> 10],
     ui |-> [modeRotate |-> FALSE, modeMove |-> FALSE, modeOrbit |-> FALSE,
             modeScale |-> [present |-> scaleBtn, active |-> FALSE],
             axisX |-> FALSE, axisY |-> FALSE, axisZ |-> FALSE,
             rotateSnap |-> <<"0">>],
     gizmo |-> [present |-> gizmo, enabled |-> TRUE, mode |-> "translate",
                showX |-> TRUE, showY |-> TRUE, showZ |-> TRUE,
                rotationSnap |-> NoSnap, dragging |-> FALSE],
     orbit |-> [present |-> orbit, enabled |-> TRUE],
     toast |-> [present |-> toast, msg |-> ""]]

\* lines 156-158: _toast(msg)
_toast(m, msg) == IF m.toast.present THEN [m EXCEPT !.toast.msg = msg] ELSE m

\* mutant of applyState: the snap follows snapDeg in every mode
applyState_snapInEveryMode(m) ==
    LET mode == m.state.mode
        axis == m.state.axis
        snapDeg == m.state.snapDeg
        orbOn == mode = "orbit"
        ui == [m.ui EXCEPT !.modeRotate = (mode = "rotate"),
                           !.modeMove = (mode = "move"),
                           !.modeOrbit = (mode = "orbit"),
                           !.modeScale.active = IF m.ui.modeScale.present
                                                THEN mode = "scale" ELSE @,
                           !.axisX = axis.x, !.axisY = axis.y, !.axisZ = axis.z,
                           !.rotateSnap = NumberToString(snapDeg)]
        gizmo == IF m.gizmo.present
                 THEN [m.gizmo EXCEPT
                        !.enabled = ~orbOn,
                        !.mode = IF mode = "move" THEN "translate"
                                 ELSE IF mode = "scale" THEN "scale" ELSE "rotate",
                        !.showX = axis.x, !.showY = axis.y, !.showZ = axis.z,
                        !.rotationSnap = IF snapDeg > 0
                                         THEN _degToRad(snapDeg) ELSE NoSnap]
                 ELSE m.gizmo
        orbit == IF m.orbit.present THEN [m.orbit EXCEPT !.enabled = orbOn] ELSE m.orbit
    IN  [m EXCEPT !.ui = ui, !.gizmo = gizmo, !.orbit = orbit]

\* lines 76-119: applyState()
applyState(m) ==
    LET mode == m.state.mode
        axis == m.state.axis
        snapDeg == m.state.snapDeg
        orbOn == mode = "orbit"
        ui == [m.ui EXCEPT !.modeRotate = (mode = "rotate"),
                           !.modeMove = (mode = "move"),
                           !.modeOrbit = (mode = "orbit"),
                           !.modeScale.active = IF m.ui.modeScale.present
                                                THEN mode = "scale" ELSE @,
                           !.axisX = axis.x, !.axisY = axis.y, !.axisZ = axis.z,
                           !.rotateSnap = NumberToString(snapDeg)]
        gizmo == IF m.gizmo.present
                 THEN [m.gizmo EXCEPT
                        !.enabled = ~orbOn,
                        !.mode = IF mode = "move" THEN "translate"
                                 ELSE IF mode = "scale" THEN "scale" ELSE "rotate",
                        !.showX = axis.x, !.showY = axis.y, !.showZ = axis.z,
                        !.rotationSnap = IF mode = "rotate" /\ snapDeg > 0
                                         THEN _degToRad(snapDeg) ELSE NoSnap]
                 ELSE m.gizmo
        orbit == IF m.orbit.present THEN [m.orbit EXCEPT !.enabled = orbOn] ELSE m.orbit
    IN  [m EXCEPT !.ui = ui, !.gizmo = gizmo, !.orbit = orbit]

\* lines 26-50: the controller once constructed
ModesController(gizmo, orbit, toast, scaleBtn) ==
    applyState(RawModes(gizmo, orbit, toast, scaleBtn))

\* lines 52-62: setMode(mode)
setMode(m, mode) ==
    IF mode \notin ModeNames THEN m
    ELSE _toast(applyState([m EXCEPT !.state.mode = mode]),
                IF mode = "rotate" THEN "Rotate mode"
                ELSE IF mode = "move" THEN "Move mode"
                ELSE IF mode = "orbit" THEN "Orbit mode"
                ELSE "Scale mode")

\* lines 64-68: toggleAxis(key)
toggleAxis(m, key) ==
    IF key \notin {"x", "y", "z"} THEN m
    ELSE applyState([m EXCEPT !.state.axis[key] = ~@])

\* lines 70-74: setSnapDeg(deg)
setSnapDeg(m, deg) ==
    LET n == Number(deg) IN
    applyState([m EXCEPT !.state.snapDeg = IF isFinite(n) THEN n.v ELSE 0])

\* lines 125-130: handleShortcut(keyLower)
handleShortcut(m, keyLower) ==
    IF keyLower = "1" THEN setMode(m, "rotate")
    ELSE IF keyLower = "2" THEN setMode(m, "move")
    ELSE IF keyLower = "3" THEN setMode(m, "orbit")
    ELSE IF keyLower = "4" THEN setMode(m, "scale")
    ELSE m

\* lines 142-145: the change listener of the snap select
rotateSnapChange(m) ==
    LET value == m.ui.rotateSnap
        v == Number(IF value # <<>> THEN JsString(value) ELSE Num(0))
    IN  setSnapDeg(m, v)

\* mutant of draggingChanged: orbit is switched back on when a drag ends,
\* whatever the mode
draggingChanged_ignoresMode(m, value) ==
    IF ~(m.gizmo.present /\ m.orbit.present) THEN m
    ELSE LET m1 == [m EXCEPT !.orbit.enabled = ~value] IN
         IF value
         THEN _toast(m1, IF m.state.mode = "move" THEN "Moving..."
                         ELSE IF m.state.mode = "scale" THEN "Scaling..."
                         ELSE "Rotating...")
         ELSE m1

\* lines 148-153: the dragging-changed listener, bound when the controller
\* has both a gizmo and orbit controls
draggingChanged(m, value) ==
    IF ~(m.gizmo.present /\ m.orbit.present) THEN m
    ELSE LET m1 == [m EXCEPT !.orbit.enabled = ~value /\ (m.state.mode = "orbit")] IN
         IF value
         THEN _toast(m1, IF m.state.mode = "move" THEN "Moving..."
                         ELSE IF m.state.mode = "scale" THEN "Scaling..."
                         ELSE "Rotating...")
         ELSE m1

\* the record of the most recent call or event of the controller: what was
\* called, with which argument, and whether it changed anything
ModesCall(op, s, deg, value, changed) ==
    [op |-> op, s |-> s, deg |-> deg, value |-> value, changed |-> changed]

NoModesCall == ModesCall("none", "", JsUndefined, FALSE, FALSE)

(***************************************************************************)
(* Inputs: worlds the program can be in, documents, collaborators.         *)
(***************************************************************************)
SphereUpper == <<"S","p","h","e","r","e">>
ConePadded == <<" ","C","o","n","e">>
weird == <<"w","e","i","r","d">>
MySphere_02 == <<"M","y","S","p","h","e","r","e","_","0","2">>
weird_blob == <<"w","e","i","r","d","_","b","l","o","b">>
Crate == <<"C","r","a","t","e">>

\* world.joints with the given orientations
Joints(q) == [i \in 1..Len(JointNames) |-> [name |-> JointNames[i], quaternion |-> q[i]]]

\* a live prop as an earlier addProp / applyPose left it
Prop(type, name, position, quaternion, scale) ==
    [id |-> 0, type |-> type, isProp |-> TRUE, name |-> name,
     position |-> position, quaternion |-> quaternion, scale |-> scale]

\* a props collection: the given props, each an object of its own
WithIds(props) == [i \in 1..Len(props) |-> [props[i] EXCEPT !.id = i]]

\* values a document gives a joint name: a quaternion array, a 3-element
\* array, and a value of length 4 that is no array
JointEntries ==
    {[arr |-> TRUE, v |-> QA], [arr |-> TRUE, v |-> <<1, 2, 3>>],
     [arr |-> FALSE, v |-> <<1, 2, 3, 4>>]}

\* names a document's joints mapping may hold: two live joints, one unknown
JointKeys == {"hips", "neck", "tail"}

JointMaps == UNION {[S -> JointEntries] : S \in SUBSET JointKeys}

\* data.joints: a mapping, missing, or a value that is no object
JointsFields ==
    {[t |-> "object", m |-> m] : m \in JointMaps}
        \cup {[t |-> "undefined", m |-> <<>>], [t |-> "string", m |-> <<>>]}

NoProps == [arr |-> FALSE, v |-> <<>>]
NoNotes == [str |-> FALSE, v |-> ""]
NullDoc ==
    [kind |-> "null", joints |-> [t |-> "undefined", m |-> <<>>],
     props |-> NoProps, notes |-> NoNotes]
PrimDoc == [NullDoc EXCEPT !.kind = "number"]

\* prop descriptors of a document
Descriptor(type, name, position, quaternion, scale) ==
    [null |-> FALSE, type |-> type, name |-> name, position |-> position,
     quaternion |-> quaternion, scale |-> scale]
NullDescriptor == [Descriptor(<<>>, <<>>, Undefined, Undefined, Undefined) EXCEPT !.null = TRUE]
D_Sphere == Descriptor(SphereUpper, Crate, <<1, 2, 3>>, QA, <<2, 2, 2>>)
D_Legacy == Descriptor(<<>>, MySphere_02, Undefined, Undefined, Undefined)
D_Weird == Descriptor(weird, <<>>, <<4, 5, 6>>, QB, <<3, 3, 3>>)

\* every collaborator supplied, the factory keeping its contract
AllDeps ==
    [world |-> "ok", scene |-> TRUE, poseNotesEl |-> TRUE, addProp |-> "appends",
     showToast |-> TRUE, updateOutline |-> TRUE, forceRenderOnce |-> TRUE,
     resetAllJointRotations |-> TRUE]

NoCall ==
    [op |-> "none", data |-> NullDoc, deps |-> AllDeps,
     pre |-> [world |-> [joints |-> <<>>, props |-> <<>>], scene |-> {}, notes |-> ""],
     threw |-> FALSE, error |-> "", ret |-> 0, log |-> <<>>]

\* an importPosePack activation: pc is "unused" (no such call), "idle" (not
\* yet called), "reading" (suspended at await file.text() of files[i]) or
\* "done"; undef says the call returned undefined
NoActivation(pc) ==
    [pc |-> pc, files |-> <<>>,
     deps |-> [applyPose |-> FALSE, saveToGallery |-> FALSE,
               renderGallery |-> FALSE, showToast |-> FALSE],
     i |-> 0, imported |-> 0, undef |-> FALSE]

NoImport == [c \in {1, 2} |-> NoActivation("unused")]

(***************************************************************************)
(* The two apply operations as steps of the program.                       *)
(***************************************************************************)
Called(op, data, deps, r) ==
    /\ world' = r.world
    /\ scene' = r.scene
    /\ poseNotesEl' = r.notes
    /\ last' = [op |-> op, data |-> data, deps |-> deps,
                pre |-> [world |-> world, scene |-> scene, notes |-> poseNotesEl],
                threw |-> r.threw, error |-> r.error, ret |-> r.ret, log |-> r.log]
    /\ UNCHANGED <<importVars, modesVars>>

ApplyPose(data, deps) ==
    /\ last.op = "none"
    /\ Called("applyPose", data, deps,
              applyPose(world, scene, poseNotesEl, data, deps))

ApplyPoseJointsOnly(data, deps) ==
    /\ last.op = "none"
    /\ Called("applyPoseJointsOnly", data, deps,
              applyPoseJointsOnly(world, scene, poseNotesEl, data, deps))

(***************************************************************************)
(* SpecJoints: one apply call, full or joints-only, on any joint state,    *)
(* with any joints mapping and with collaborators missing.                 *)
(***************************************************************************)
DocsJ ==
    {[kind |-> "object", joints |-> j, props |-> pn[1], notes |-> pn[2]] :
        j \in JointsFields,
        pn \in {<<NoProps, NoNotes>>,
                <<[arr |-> TRUE, v |-> <<D_Sphere>>], [str |-> TRUE, v |-> "new notes"]>>}}
        \cup {NullDoc, PrimDoc}

DepsJ ==
    [world : {"ok", "missing", "nojoints", "noprops"}, scene : BOOLEAN,
     poseNotesEl : {TRUE}, addProp : {"appends"}, showToast : BOOLEAN,
     updateOutline : {TRUE}, forceRenderOnce : {TRUE},
     resetAllJointRotations : BOOLEAN]

InitJoints ==
    /\ \E q \in [1..Len(JointNames) -> {Identity, QB}],
          props \in {<<>>, <<Prop(cube, <<>>, <<7, 8, 9>>, QB, <<1, 1, 1>>)>>} :
            /\ world = [joints |-> Joints(q), props |-> WithIds(props)]
            /\ scene = PropIds(WithIds(props))
    /\ poseNotesEl = "old notes"
    /\ last = NoCall
    /\ imp = NoImport
    /\ gallery = <<>>
    /\ trace = <<>>
    /\ modes = ModesController(TRUE, TRUE, TRUE, TRUE)
    /\ modesCall = NoModesCall

\* a caller runs applyPose / applyPoseJointsOnly once, on some document
CallApplyPoseJ ==
    /\ last.op = "none"
    /\ \E data \in DocsJ, deps \in DepsJ : ApplyPose(data, deps)

CallApplyPoseJointsOnlyJ ==
    /\ last.op = "none"
    /\ \E data \in DocsJ, deps \in DepsJ : ApplyPoseJointsOnly(data, deps)

NextJoints == CallApplyPoseJ \/ CallApplyPoseJointsOnlyJ

SpecJoints == InitJoints /\ [][NextJoints]_vars

(***************************************************************************)
(* Claims about the joint step and about the validation of one apply call. *)
(***************************************************************************)
\* the joints mapping of the call's document (empty when it has none)
DocJoints == IF last.data.joints.t = "object" THEN last.data.joints.m ELSE <<>>

\* the document gives this joint name a 4-element array
HasQuat(name) ==
    /\ name \in DOMAIN DocJoints
    /\ DocJoints[name].arr
    /\ Len(DocJoints[name].v) = 4

\* the document has an entry for this name that is no 4-element array
HasBadEntry(name) == name \in DOMAIN DocJoints /\ ~HasQuat(name)

Returned(op) == last.op = op /\ ~last.threw

SameJointNames ==
    /\ Len(world.joints) = Len(last.pre.world.joints)
    /\ \A i \in 1..Len(world.joints) :
        world.joints[i].name = last.pre.world.joints[i].name

JointWrites == SelectSeq(last.log, LAMBDA e : e.ev = "joint")
Toasts == SelectSeq(last.log, LAMBDA e : e.ev = "showToast")
MatchedJoints == {i \in 1..Len(world.joints) : HasQuat(world.joints[i].name)}

\* C5: after a full apply that returns, a live joint named by the document
\* with a 4-element array holds exactly that array, and every other live
\* joint holds the orientation it had before; no joint is added or renamed.
C5_FullApplyOverwritesNamedJoints ==
    Returned("applyPose") =>
        /\ SameJointNames
        /\ \A i \in 1..Len(world.joints) :
            world.joints[i].quaternion =
                IF HasQuat(world.joints[i].name)
                THEN DocJoints[world.joints[i].name].v
                ELSE last.pre.world.joints[i].quaternion

C5_Witness ==
    /\ Returned("applyPose")
    /\ "tail" \in DOMAIN DocJoints
    /\ HasQuat("hips") /\ last.pre.world.joints[1].quaternion = QB
    /\ world.joints[1].quaternion = QA
    /\ HasBadEntry("neck") /\ world.joints[2].quaternion = QB

\* C6 as stated: after applyPoseJointsOnly returns, every live joint holds
\* the document's 4-element array for its name, and identity when the
\* document has none.
C6_Original ==
    Returned("applyPoseJointsOnly") =>
        \A i \in 1..Len(world.joints) :
            world.joints[i].quaternion =
                IF HasQuat(world.joints[i].name)
                THEN DocJoints[world.joints[i].name].v
                ELSE Identity

\* C6 amended: the same, for a call that was given the reset hook.
C6_DeterminedPoseWithResetHook ==
    (Returned("applyPoseJointsOnly") /\ last.deps.resetAllJointRotations) =>
        /\ SameJointNames
        /\ \A i \in 1..Len(world.joints) :
            world.joints[i].quaternion =
                IF HasQuat(world.joints[i].name)
                THEN DocJoints[world.joints[i].name].v
                ELSE Identity

C6_Witness ==
    /\ Returned("applyPoseJointsOnly") /\ last.deps.resetAllJointRotations
    /\ HasQuat("hips") /\ world.joints[1].quaternion = QA
    /\ "neck" \notin DOMAIN DocJoints
    /\ last.pre.world.joints[2].quaternion = QB
    /\ world.joints[2].quaternion = Identity

\* C7 as stated: in applyPoseJointsOnly a joint whose entry does not have
\* length 4 keeps the orientation it had before the call and is not counted.
C7_Original ==
    Returned("applyPoseJointsOnly") =>
        \A i \in 1..Len(world.joints) :
            (/\ world.joints[i].name \in DOMAIN DocJoints
             /\ Len(DocJoints[world.joints[i].name].v) # 4) =>
                /\ world.joints[i].quaternion = last.pre.world.joints[i].quaternion
                /\ \A k \in 1..Len(JointWrites) :
                    JointWrites[k].arg # world.joints[i].name
                /\ last.ret = Len(JointWrites)

\* C7 amended: such a joint is not written by the matching step and is not
\* counted; it is left as the reset step left it: at identity when the reset
\* hook was given, at its prior orientation when it was not.
C7_BadEntryLeftAsResetLeftIt ==
    Returned("applyPoseJointsOnly") =>
        \A i \in 1..Len(world.joints) :
            HasBadEntry(world.joints[i].name) =>
                /\ world.joints[i].quaternion =
                    IF last.deps.resetAllJointRotations THEN Identity
                    ELSE last.pre.world.joints[i].quaternion
                /\ \A k \in 1..Len(JointWrites) :
                    JointWrites[k].arg # world.joints[i].name
                /\ last.ret = Len(JointWrites)
                /\ last.ret <= Len(world.joints) - 1

C7_Witness ==
    /\ Returned("applyPoseJointsOnly") /\ last.deps.resetAllJointRotations
    /\ "neck" \in DOMAIN DocJoints /\ DocJoints["neck"] = [arr |-> TRUE, v |-> <<1, 2, 3>>]
    /\ last.pre.world.joints[2].quaternion = QB
    /\ world.joints[2].quaternion = Identity
    /\ HasQuat("hips") /\ last.ret = 1

\* the one notification a returned joints-only call owes: the no-match
\* message for a count of 0, the count-bearing message otherwise
RightToast ==
    /\ Len(Toasts) = 1
    /\ Toasts[1].n = last.ret
    /\ Toasts[1].arg = IF last.ret = 0 THEN "Preset loaded (no matching joints)"
                       ELSE "Preset loaded (n joints)"

\* C8 as stated: applyPoseJointsOnly returns the number of live joints the
\* document names with a 4-element array and emits exactly one notification,
\* the no-match message for 0 and the count-bearing one otherwise.
C8_Original ==
    Returned("applyPoseJointsOnly") =>
        /\ last.ret = Cardinality(MatchedJoints)
        /\ RightToast

\* C8 amended: the count as stated; the one notification when a notification
\* hook was given, and none when it was not.
C8_CountAndToastWhenHookGiven ==
    Returned("applyPoseJointsOnly") =>
        /\ last.ret = Cardinality(MatchedJoints)
        /\ IF last.deps.showToast THEN RightToast ELSE Toasts = <<>>

C8_Witness ==
    /\ Returned("applyPoseJointsOnly") /\ last.deps.showToast
    /\ DOMAIN DocJoints = {"tail"}
    /\ last.ret = 0
    /\ Toasts = <<Ev("showToast", "Preset loaded (no matching joints)", 0)>>

\* nothing of the live state differs from before the call, and no hook ran
Untouched ==
    /\ last.threw
    /\ world = last.pre.world
    /\ scene = last.pre.scene
    /\ poseNotesEl = last.pre.notes
    /\ last.log = <<>>

\* C10: applyPose given a null or non-object document, no world (or a world
\* without joints or props) or no scene, and applyPoseJointsOnly given a
\* document without a joints mapping or no world, raise to the caller having
\* changed no joint, prop or note and having run no hook.
C10_FailFastBeforeAnyMutation ==
    /\ (/\ last.op = "applyPose"
        /\ \/ last.data.kind # "object"
           \/ last.deps.world # "ok"
           \/ ~last.deps.scene) => Untouched
    /\ (/\ last.op = "applyPoseJointsOnly"
        /\ \/ last.data.kind # "object"
           \/ last.data.joints.t # "object"
           \/ last.deps.world \in {"missing", "nojoints"}) => Untouched

C10_Witness ==
    /\ last.op = "applyPose" /\ last.threw
    /\ last.error = "applyPose: missing scene"
    /\ last.deps.world = "ok" /\ last.deps.showToast
    /\ last.data.props.arr /\ last.data.notes.str
    /\ HasQuat("hips") /\ world.joints[1].quaternion = QB
    /\ Len(world.props) = 1 /\ scene = {1}
    /\ poseNotesEl = "old notes"

(***************************************************************************)
(* SpecProps: one full apply on a world that holds props, with any props   *)
(* list, any factory and any of the optional collaborators missing.        *)
(***************************************************************************)
\* every sequence over S of length at most n
SeqsUpTo(S, n) == UNION {[1..k -> S] : k \in 0..n}

DocsP ==
    [kind : {"object"},
     joints : {[t |-> "undefined", m |-> <<>>],
               [t |-> "object", m |-> [n \in {"hips"} |-> [arr |-> TRUE, v |-> QA]]]},
     props : {NoProps} \cup
             {[arr |-> TRUE, v |-> v] :
                v \in SeqsUpTo({D_Sphere, D_Legacy, D_Weird, NullDescriptor}, MaxProps)},
     notes : {NoNotes, [str |-> TRUE, v |-> "new notes"]}]

DepsP ==
    [world : {"ok"}, scene : {TRUE}, poseNotesEl : BOOLEAN,
     addProp : {"none", "appends", "picky"}, showToast : BOOLEAN,
     updateOutline : BOOLEAN, forceRenderOnce : BOOLEAN,
     resetAllJointRotations : {TRUE}]

LiveProps ==
    {Prop(cube, <<>>, <<7, 8, 9>>, QB, <<1, 1, 1>>),
     Prop(<<>>, weird_blob, <<0, 1, 0>>, Identity, <<5, 5, 5>>)}

InitProps ==
    /\ \E props \in SeqsUpTo(LiveProps, MaxProps) :
            /\ world = [joints |-> Joints(<<Identity, QB>>), props |-> WithIds(props)]
            /\ scene = PropIds(WithIds(props))
    /\ poseNotesEl = "old notes"
    /\ last = NoCall
    /\ imp = NoImport
    /\ gallery = <<>>
    /\ trace = <<>>
    /\ modes = ModesController(TRUE, TRUE, TRUE, TRUE)
    /\ modesCall = NoModesCall

CallApplyPoseP ==
    /\ last.op = "none"
    /\ \E data \in DocsP, deps \in DepsP : ApplyPose(data, deps)

NextProps == CallApplyPoseP

SpecProps == InitProps /\ [][NextProps]_vars

\* C4 as stated: after a full apply that returns, no prop that was in
\* world.props before the call is still in world.props or in the scene.
C4_Original ==
    Returned("applyPose") =>
        \A id \in PropIds(last.pre.world.props) :
            id \notin PropIds(world.props) /\ id \notin scene

\* C4 amended: the same, for a document whose props field is an array
\* (a document without one leaves the props as they are).
C4_PropsReplacedWhenDocumentHasProps ==
    /\ (Returned("applyPose") /\ last.data.props.arr) =>
            \A id \in PropIds(last.pre.world.props) :
                id \notin PropIds(world.props) /\ id \notin scene
    /\ (Returned("applyPose") /\ ~last.data.props.arr) =>
            world.props = last.pre.world.props /\ scene = last.pre.scene

C4_Witness ==
    /\ Returned("applyPose") /\ last.data.props.arr
    /\ Len(last.pre.world.props) = 2
    /\ Len(world.props) = 2
    /\ PropIds(world.props) \cap PropIds(last.pre.world.props) = {}
    /\ scene = PropIds(world.props)

(***************************************************************************)
(* SpecRoundTrip: a world is serialized and the document is applied to a   *)
(* freshly built world of the same structure.                              *)
(***************************************************************************)
StoredProps ==
    {Prop(sphere, Crate, <<1, 2, 3>>, QA, <<2, 2, 2>>),
     Prop(SphereUpper, <<>>, <<4, 5, 6>>, QB, <<3, 3, 3>>),
     Prop(ConePadded, Crate, <<0, 0, 1>>, QA, <<1, 2, 1>>),
     Prop(<<>>, MySphere_02, <<7, 8, 9>>, QB, <<4, 4, 4>>),
     Prop(<<>>, weird_blob, <<0, 1, 0>>, Identity, <<5, 5, 5>>)}

InitRoundTrip ==
    /\ \E q \in [1..Len(JointNames) -> {Identity, QA, QB}],
          props \in SeqsUpTo(StoredProps, MaxProps) :
            /\ world = [joints |-> Joints(q), props |-> WithIds(props)]
            /\ scene = PropIds(WithIds(props))
    /\ poseNotesEl \in {"", "old notes"}
    /\ last = NoCall
    /\ imp = NoImport
    /\ gallery = <<>>
    /\ trace = <<>>
    /\ modes = ModesController(TRUE, TRUE, TRUE, TRUE)
    /\ modesCall = NoModesCall

\* applyPose(serializePose({world, poseNotesEl}), deps) with deps.world a
\* fresh world: the character as built (or posed with q), holding the props
\* `left`; prop ids name the objects of one world
RoundTrip(q, left) ==
    /\ last.op = "none"
    /\ LET data == serializePose(world, TRUE, poseNotesEl)
           props == [i \in 1..Len(left) |->
                        [left[i] EXCEPT !.id = Len(world.props) + i]]
           r == applyPose([joints |-> Joints(q), props |-> props],
                          PropIds(props), "", data, AllDeps)
       IN  Called("roundTrip", data, AllDeps, r)

CallRoundTrip ==
    /\ last.op = "none"
    /\ \E q \in {<<Identity, Identity>>, <<QB, QA>>},
          left \in SeqsUpTo({Prop(torus, <<>>, <<9, 9, 9>>, QB, <<6, 6, 6>>)}, 1) :
            RoundTrip(q, left)

NextRoundTrip == CallRoundTrip

SpecRoundTrip == InitRoundTrip /\ [][NextRoundTrip]_vars

\* the stored type tag is what applyPose would store: trimmed and lowercase
NormalTag(p) == p.type = toLowerCase(trim(p.type))

SameJointsAndTransforms ==
    /\ ~last.threw
    /\ Len(world.joints) = Len(last.pre.world.joints)
    /\ \A i \in 1..Len(world.joints) :
        /\ world.joints[i].name = last.pre.world.joints[i].name
        /\ world.joints[i].quaternion = last.pre.world.joints[i].quaternion
    /\ Len(world.props) = Len(last.pre.world.props)
    /\ \A i \in 1..Len(world.props) :
        /\ world.props[i].position = last.pre.world.props[i].position
        /\ world.props[i].quaternion = last.pre.world.props[i].quaternion
        /\ world.props[i].scale = last.pre.world.props[i].scale

\* C9 as stated: the round trip reproduces every joint's quaternion and
\* every prop's type, position, orientation and scale, in the original
\* order, whatever the stored type tags and legacy names.
C9_Original ==
    last.op = "roundTrip" =>
        /\ SameJointsAndTransforms
        /\ \A i \in 1..Len(world.props) :
            SerializedType(world.props[i]) = SerializedType(last.pre.world.props[i])

\* C9 amended: joints, positions, orientations and scales are reproduced in
\* order for every world; the type of a prop is reproduced when its stored
\* type tag is already trimmed and lowercase, or when it has none (a legacy
\* name).
C9_RoundTripUpToTagNormalisation ==
    last.op = "roundTrip" =>
        /\ SameJointsAndTransforms
        /\ \A i \in 1..Len(world.props) :
            NormalTag(last.pre.world.props[i]) =>
                SerializedType(world.props[i]) = SerializedType(last.pre.world.props[i])

C9_Witness ==
    /\ last.op = "roundTrip"
    /\ Len(last.pre.world.props) = 2
    /\ last.pre.world.props[1].type = <<>> /\ last.pre.world.props[1].name = MySphere_02
    /\ last.pre.world.props[2].type = sphere
    /\ world.props[1].type = sphere /\ world.props[1].scale = <<4, 4, 4>>
    /\ world.props[2].type = sphere /\ world.props[2].position = <<1, 2, 3>>
    /\ last.pre.world.joints[2].quaternion = QA
    /\ world.joints[2].quaternion = QA
    /\ world.props[1].isProp /\ world.props[2].name = Crate

(***************************************************************************)
(* importPosePack                                                          *)
(***************************************************************************)
dotjson == <<".","j","s","o","n">>

\* mutant of IsCandidate: the suffix is compared case-sensitively
IsCandidate_caseSensitive(file) == endsWith(file.name, dotjson)

\* line 183: file?.name?.toLowerCase().endsWith(".json")
IsCandidate(file) == endsWith(toLowerCase(file.name), dotjson)

\* line 193: file.name.replace(/\.json$/i, "")
DisplayName(name) ==
    IF endsWith(toLowerCase(name), dotjson)
    THEN SubSeq(name, 1, Len(name) - Len(dotjson))
    ELSE name

\* one step of the pipeline, by call c on its file k
Step(c, k, ev) == [c |-> c, k |-> k, ev |-> ev, n |-> 0]

\* the applyPose the application hands to importPosePack: applyPose on the
\* live world with every collaborator
AppApplyPose(st, data) ==
    LET r == applyPose(st.world, st.scene, st.notes, data, AllDeps) IN
    [st EXCEPT !.world = r.world, !.scene = r.scene, !.notes = r.notes,
               !.threw = r.threw]

\* mutant of SaveAndCount: the file is counted before the save is tried
SaveAndCount_countFirst(st, c, k, file, deps, saveRaises) ==
    IF deps.saveToGallery /\ saveRaises
    THEN [st EXCEPT !.trace = Append(@, Step(c, k, "save.raised")),
                    !.imported = @ + 1]
    ELSE IF deps.saveToGallery
    THEN [st EXCEPT !.gallery = Append(@, [name |-> DisplayName(file.name),
                                            c |-> c, k |-> k,
                                            withToast |-> FALSE,
                                            pose |-> st.world]),
                    !.trace = Append(@, Step(c, k, "save")),
                    !.imported = @ + 1]
    ELSE [st EXCEPT !.imported = @ + 1]

\* lines 195-199: saveToGallery({name, withToast: false}), which stores the
\* pose on screen under that name or raises, and the count
SaveAndCount(st, c, k, file, deps, saveRaises) ==
    IF deps.saveToGallery /\ saveRaises
    THEN [st EXCEPT !.trace = Append(@, Step(c, k, "save.raised"))]
    ELSE IF deps.saveToGallery
    THEN [st EXCEPT !.gallery = Append(@, [name |-> DisplayName(file.name),
                                            c |-> c, k |-> k,
                                            withToast |-> FALSE,
                                            pose |-> st.world]),
                    !.trace = Append(@, Step(c, k, "save")),
                    !.imported = @ + 1]
    ELSE [st EXCEPT !.imported = @ + 1]

\* mutant of ApplyAndSave: the pose is saved before the document is applied
ApplyAndSave_saveFirst(st, c, k, file, deps, saveRaises) ==
    LET s1 == SaveAndCount(st, c, k, file, deps, saveRaises)
        s2 == AppApplyPose(s1, file.text.doc)
    IN  IF deps.applyPose /\ s1.imported > st.imported
        THEN [s2 EXCEPT !.trace = Append(@, Step(c, k, IF s2.threw THEN "apply.raised"
                                                       ELSE "apply")),
                        !.threw = FALSE]
        ELSE s1

\* lines 189-199: apply the parsed document, then save and count
ApplyAndSave(st, c, k, file, deps, saveRaises) ==
    IF deps.applyPose
    THEN LET s1 == AppApplyPose(st, file.text.doc) IN
         IF s1.threw
         THEN [s1 EXCEPT !.trace = Append(@, Step(c, k, "apply.raised")),
                         !.threw = FALSE]
         ELSE SaveAndCount([s1 EXCEPT !.trace = Append(@, Step(c, k, "apply"))],
                           c, k, file, deps, saveRaises)
    ELSE SaveAndCount(st, c, k, file, deps, saveRaises)

\* lines 186-202, from the moment file.text() settles: the read's outcome,
\* JSON.parse, apply, save; whatever raises is caught and logged
AfterRead(st, c, k, file, deps, saveRaises) ==
    IF file.read # "ok"
    THEN [st EXCEPT !.trace = Append(@, Step(c, k, "read.rejected"))]
    ELSE IF ~file.text.ok
    THEN [st EXCEPT !.trace = @ \o <<Step(c, k, "read"), Step(c, k, "parse.raised")>>]
    ELSE ApplyAndSave(
            [st EXCEPT !.trace = @ \o <<Step(c, k, "read"), Step(c, k, "parse")>>],
            c, k, file, deps, saveRaises)

\* lines 207-210: the summary
Summary(imported) ==
    IF imported > 1 THEN "Imported n poses"
    ELSE IF imported > 0 THEN "Imported n pose"
    ELSE "No valid poses imported"

\* mutant of Finish: the gallery is re-rendered only when a pose was imported
Finish_renderOnlyWhenImported(st, c, deps) ==
    [st EXCEPT
        !.trace = @ \o (IF deps.renderGallery /\ st.imported > 0
                        THEN <<Step(c, 0, "renderGallery")>> ELSE <<>>)
                    \o (IF deps.showToast
                        THEN <<[c |-> c, k |-> 0, ev |-> Summary(st.imported),
                                n |-> st.imported]>>
                        ELSE <<>>),
        !.pc = "done"]

\* lines 205-212: after the loop
Finish(st, c, deps) ==
    [st EXCEPT
        !.trace = @ \o (IF deps.renderGallery
                        THEN <<Step(c, 0, "renderGallery")>> ELSE <<>>)
                    \o (IF deps.showToast
                        THEN <<[c |-> c, k |-> 0, ev |-> Summary(st.imported),
                                n |-> st.imported]>>
                        ELSE <<>>),
        !.pc = "done"]

\* lines 182-186: the loop from file k on, up to the next await: entries
\* that are no candidates are passed over, the first candidate's read is
\* started and the call suspends; with no file left the call finishes
RECURSIVE Advance(_, _, _, _, _)
Advance(st, c, k, files, deps) ==
    IF k > Len(files) THEN Finish(st, c, deps)
    ELSE IF ~IsCandidate(files[k]) THEN Advance(st, c, k + 1, files, deps)
    ELSE [st EXCEPT !.trace = Append(@, Step(c, k, "read.start")),
                    !.pc = "reading", !.i = k]

\* the state the synchronous code of importPosePack works on
Running(c) ==
    [world |-> world, scene |-> scene, notes |-> poseNotesEl, gallery |-> gallery,
     trace |-> trace, imported |-> imp[c].imported, pc |-> imp[c].pc,
     i |-> imp[c].i, threw |-> FALSE]

Suspend(c, st, files, deps, undef) ==
    /\ world' = st.world
    /\ scene' = st.scene
    /\ poseNotesEl' = st.notes
    /\ gallery' = st.gallery
    /\ trace' = st.trace
    /\ imp' = [imp EXCEPT ![c] = [pc |-> st.pc, files |-> files, deps |-> deps,
                                  i |-> st.i, imported |-> st.imported,
                                  undef |-> undef]]
    /\ UNCHANGED <<last, modesVars>>

\* importPosePack(files, deps) is called: it runs to its first await, or to
\* its end when no file is a candidate; line 179 returns at once (undefined)
\* for an empty batch
ImportPosePack(c, files, deps) ==
    /\ imp[c].pc = "idle"
    /\ \E st \in {IF files = <<>> THEN [Running(c) EXCEPT !.pc = "done"]
                  ELSE Advance(Running(c), c, 1, files, deps)} :
            Suspend(c, st, files, deps, files = <<>>)

\* the read the call is suspended on settles: the call resumes, handles that
\* file and runs on to its next await or to its end
FileTextSettled(c, saveRaises) ==
    /\ imp[c].pc = "reading"
    /\ \E a \in {imp[c]} :
        \E s1 \in {AfterRead(Running(c), c, a.i, a.files[a.i], a.deps, saveRaises)} :
            \E s2 \in {Advance(s1, c, a.i + 1, a.files, a.deps)} :
                Suspend(c, s2, a.files, a.deps, FALSE)

(***************************************************************************)
(* SpecImport: one importPosePack call on any batch.                       *)
(***************************************************************************)
a_json == <<"a",".","j","s","o","n">>
B_JSON == <<"B",".","J","S","O","N">>
c_txt == <<"c",".","t","x","t">>
d_json == <<"d",".","j","s","o","n">>

PoseDoc(m, descriptors) ==
    [kind |-> "object", joints |-> [t |-> "object", m |-> m],
     props |-> [arr |-> TRUE, v |-> descriptors],
     notes |-> [str |-> TRUE, v |-> "new notes"]]

File(name, read, ok, doc) ==
    [name |-> name, read |-> read, text |-> [ok |-> ok, doc |-> doc]]

\* a pose file, a pose file with an upper-case suffix, a file that is no
\* .json, a file whose read rejects, a file that is not JSON, and a file
\* holding the JSON text null
ImportFiles ==
    {File(a_json, "ok", TRUE,
          PoseDoc([n \in {"hips"} |-> [arr |-> TRUE, v |-> QA]], <<D_Sphere>>)),
     File(B_JSON, "ok", TRUE,
          PoseDoc([n \in {"neck"} |-> [arr |-> TRUE, v |-> QA]], <<>>)),
     File(c_txt, "ok", TRUE, PoseDoc(<<>>, <<D_Legacy>>)),
     File(d_json, "rejects", FALSE, NullDoc),
     File(d_json, "ok", FALSE, NullDoc),
     File(d_json, "ok", TRUE, NullDoc)}

ImportDeps ==
    [applyPose : BOOLEAN, saveToGallery : BOOLEAN, renderGallery : BOOLEAN,
     showToast : BOOLEAN]

InitImport ==
    /\ world = [joints |-> Joints(<<Identity, QB>>), props |-> <<>>]
    /\ scene = {}
    /\ poseNotesEl = "old notes"
    /\ last = NoCall
    /\ imp = [NoImport EXCEPT ![1] = NoActivation("idle")]
    /\ gallery = <<>>
    /\ trace = <<>>
    /\ modes = ModesController(TRUE, TRUE, TRUE, TRUE)
    /\ modesCall = NoModesCall

\* the application calls importPosePack on some batch
CallImportPosePack ==
    \E c \in {1, 2} :
        /\ imp[c].pc = "idle"
        /\ \E files \in SeqsUpTo(ImportFiles, MaxFiles), deps \in ImportDeps :
                ImportPosePack(c, files, deps)

\* a pending read settles; saveToGallery may raise for that file
ReadSettles ==
    \E c \in {1, 2} :
        /\ imp[c].pc = "reading"
        /\ \E saveRaises \in (IF imp[c].deps.saveToGallery THEN BOOLEAN ELSE {FALSE}) :
                FileTextSettled(c, saveRaises)

NextImport == CallImportPosePack \/ ReadSettles

SpecImport == InitImport /\ [][NextImport]_vars

(***************************************************************************)
(* Claims about importPosePack.                                            *)
(***************************************************************************)
\* the steps of call c, in order
StepsOf(c) == SelectSeq(trace, LAMBDA e : e.c = c)

Did(c, k, ev) == \E p \in 1..Len(trace) : trace[p] = Step(c, k, ev)

\* the name ends in .json, whatever the case of its letters
JsonName(name) ==
    /\ Len(name) >= 5
    /\ \A j \in 1..5 : LowerChar(name[Len(name) - 5 + j]) = dotjson[j]

\* file k of call c: a .json file whose read, parse, apply and save all
\* completed without raising
Imported(c, k) ==
    /\ JsonName(imp[c].files[k].name)
    /\ imp[c].files[k].read = "ok"
    /\ imp[c].files[k].text.ok
    /\ ~Did(c, k, "apply.raised")
    /\ ~Did(c, k, "save.raised")

Finished(c) == imp[c].pc = "done" /\ imp[c].files # <<>>

\* C1: a call on a non-empty batch ends having returned the number of .json
\* files whose read, parse, apply and save all completed; a file that failed
\* is not counted and not saved, and every .json file of the batch was read,
\* also those after a file that failed.
C1_ImportCountsTheFilesThatCompleted ==
    \A c \in {1, 2} :
        Finished(c) =>
            /\ ~imp[c].undef
            /\ imp[c].imported =
                Cardinality({k \in 1..Len(imp[c].files) : Imported(c, k)})
            /\ \A k \in 1..Len(imp[c].files) :
                JsonName(imp[c].files[k].name) => Did(c, k, "read.start")
            /\ \A g \in 1..Len(gallery) :
                gallery[g].c = c => Imported(c, gallery[g].k)

C1_Witness ==
    /\ Finished(1)
    /\ Len(imp[1].files) = 3
    /\ imp[1].files[1].name = a_json /\ Imported(1, 1)
    /\ imp[1].files[2].read = "ok" /\ ~imp[1].files[2].text.ok
    /\ Did(1, 2, "parse.raised")
    /\ imp[1].files[3].name = B_JSON /\ Imported(1, 3)
    /\ imp[1].deps.applyPose /\ imp[1].deps.saveToGallery
    /\ imp[1].imported = 2
    /\ Len(gallery) = 2

NoValid == "No valid poses imported"
IsSummary(e) == e.ev \in {"Imported n pose", "Imported n poses", NoValid}

\* the steps of call c end with the one gallery render and then the one
\* summary, which carries the count when it is above zero
RenderThenSummary(c) ==
    LET T == StepsOf(c) IN
    /\ Len(T) >= 2
    /\ T[Len(T) - 1].ev = "renderGallery"
    /\ IsSummary(T[Len(T)])
    /\ T[Len(T)].n = imp[c].imported
    /\ (T[Len(T)].ev = NoValid) <=> (imp[c].imported = 0)
    /\ \A p \in 1..(Len(T) - 2) : T[p].ev # "renderGallery" /\ ~IsSummary(T[p])

HooksGiven(c) == imp[c].deps.renderGallery /\ imp[c].deps.showToast

\* C2 as stated: every call given the render and notification hooks, on a
\* batch of zero or more files, renders the gallery exactly once after the
\* last file and then emits exactly one summary.
C2_Original ==
    \A c \in {1, 2} :
        (imp[c].pc = "done" /\ HooksGiven(c)) => RenderThenSummary(c)

\* C2 amended: the same for a batch of one or more files; a call on an empty
\* batch returns at once, undefined, and calls neither hook.
C2_OneRenderThenOneSummaryForNonEmptyBatch ==
    \A c \in {1, 2} :
        /\ (Finished(c) /\ HooksGiven(c)) => RenderThenSummary(c)
        /\ (imp[c].pc = "done" /\ imp[c].files = <<>>) =>
                imp[c].undef /\ StepsOf(c) = <<>>

C2_Witness ==
    /\ Finished(1) /\ HooksGiven(1)
    /\ Len(imp[1].files) = 3
    /\ imp[1].imported = 0
    /\ Did(1, 1, "read.rejected") /\ Did(1, 2, "parse.raised") /\ Did(1, 3, "apply.raised")
    /\ StepsOf(1)[Len(StepsOf(1))] = [c |-> 1, k |-> 0, ev |-> NoValid, n |-> 0]

\* C3: within a call the files are handled one after the other in input
\* order: a step of a later file never precedes a step of an earlier one, a
\* read starts only when the read before it has settled, an apply is the step
\* right before the save of the same file, and the gallery receives the
\* call's poses in file order.
C3_FilesHandledInOrderWithoutOverlap ==
    \A c \in {1, 2} :
        LET T == StepsOf(c) IN
        /\ \A p, q \in 1..Len(T) :
            (p < q /\ T[q].k > 0) => T[p].k > 0 /\ T[p].k <= T[q].k
        /\ \A q \in 1..Len(T) :
            T[q].ev = "read.start" =>
                \A p \in 1..(q - 1) :
                    T[p].ev = "read.start" =>
                        \E r \in (p + 1)..(q - 1) :
                            /\ T[r].k = T[p].k
                            /\ T[r].ev \in {"read", "read.rejected"}
        /\ \A p \in 1..Len(trace) :
            (trace[p].c = c /\ trace[p].ev = "save" /\ imp[c].deps.applyPose) =>
                p > 1 /\ trace[p - 1] = Step(c, trace[p].k, "apply")
        /\ \A p \in 1..Len(trace) :
            (trace[p].c = c /\ trace[p].ev = "apply" /\ imp[c].deps.saveToGallery) =>
                /\ p < Len(trace)
                /\ trace[p + 1] \in {Step(c, trace[p].k, "save"),
                                     Step(c, trace[p].k, "save.raised")}
        /\ \A g, h \in 1..Len(gallery) :
            (g < h /\ gallery[g].c = c /\ gallery[h].c = c) =>
                gallery[g].k < gallery[h].k

C3_Witness ==
    /\ Finished(1)
    /\ imp[1].deps.applyPose /\ imp[1].deps.saveToGallery
    /\ Len(imp[1].files) = 3
    /\ SelectSeq(StepsOf(1), LAMBDA e : e.k > 0) =
        <<Step(1, 1, "read.start"), Step(1, 1, "read"), Step(1, 1, "parse"),
          Step(1, 1, "apply"), Step(1, 1, "save"),
          Step(1, 3, "read.start"), Step(1, 3, "read"), Step(1, 3, "parse"),
          Step(1, 3, "apply"), Step(1, 3, "save")>>
    /\ gallery[1].k = 1 /\ gallery[2].k = 3

\* C11: importPosePack handles only the files whose name ends in .json,
\* whatever the case of the letters: no step (read, parse, apply, save) is
\* ever taken for another entry of the batch and no pose of it reaches the
\* gallery; when the call has ended every .json file has been read, and the
\* count is at most the number of .json files; a batch with no .json file
\* leaves the world, the scene, the notes and the gallery as they were and
\* counts 0.
C11_OnlyJsonFilesAreHandled ==
    \A c \in {1, 2} :
        LET files == imp[c].files
            json == {k \in 1..Len(files) : JsonName(files[k].name)}
        IN  /\ \A p \in 1..Len(trace) :
                (trace[p].c = c /\ trace[p].k > 0) => trace[p].k \in json
            /\ \A g \in 1..Len(gallery) : gallery[g].c = c => gallery[g].k \in json
            /\ imp[c].imported <= Cardinality(json)
            /\ Finished(c) =>
                /\ ~imp[c].undef
                /\ \A k \in json : Did(c, k, "read.start")
                /\ json = {} =>
                    /\ imp[c].imported = 0
                    /\ world = [joints |-> Joints(<<Identity, QB>>), props |-> <<>>]
                    /\ scene = {}
                    /\ poseNotesEl = "old notes"
                    /\ gallery = <<>>

C11_Witness ==
    /\ Finished(1)
    /\ imp[1].deps.applyPose /\ imp[1].deps.saveToGallery /\ imp[1].deps.showToast
    /\ Len(imp[1].files) = 3
    /\ imp[1].files[1].name = c_txt /\ imp[1].files[3].name = c_txt
    /\ imp[1].files[2].name = B_JSON
    /\ SelectSeq(trace, LAMBDA e : e.k > 0) =
        <<Step(1, 2, "read.start"), Step(1, 2, "read"), Step(1, 2, "parse"),
          Step(1, 2, "apply"), Step(1, 2, "save")>>
    /\ imp[1].imported = 1
    /\ world.joints[2].quaternion = QA
    /\ world.props = <<>>

(***************************************************************************)
(* Claims about what the joints-only apply leaves alone.                   *)
(***************************************************************************)
\* the entries of the call's log that touch a prop, the scene or the notes
PropOrNotesWrites ==
    SelectSeq(last.log,
              LAMBDA e : e.ev \in {"addProp", "setProp", "scene.remove",
                                   "props.clear", "poseNotesEl"})

\* C12: applyPoseJointsOnly, whether it returns or raises and whatever the
\* document carries in its props and notes fields, leaves world.props (its
\* members, their order and their transforms), the props attached to the
\* scene and the value of the notes element exactly as they were before the
\* call, and it calls neither the prop factory nor scene.remove.
C12_JointsOnlyLeavesPropsAndNotes ==
    last.op = "applyPoseJointsOnly" =>
        /\ world.props = last.pre.world.props
        /\ scene = last.pre.scene
        /\ poseNotesEl = last.pre.notes
        /\ PropOrNotesWrites = <<>>

C12_Witness ==
    /\ Returned("applyPoseJointsOnly")
    /\ last.data.props.arr /\ last.data.props.v = <<D_Sphere>>
    /\ last.data.notes = [str |-> TRUE, v |-> "new notes"]
    /\ last.deps.poseNotesEl
    /\ HasQuat("hips") /\ world.joints[1].quaternion = QA /\ last.ret >= 1
    /\ Len(last.pre.world.props) = 1
    /\ world.props = last.pre.world.props
    /\ world.props[1].position = <<7, 8, 9>>
    /\ scene = {1}
    /\ poseNotesEl = "old notes"

(***************************************************************************)
(* SpecInfer: a world holding one legacy prop (a name, no stored type tag) *)
(* is serialized, or a legacy document (a descriptor with a name and no    *)
(* type) is applied to it.                                                 *)
(***************************************************************************)
Cyl_01 == <<"C","y","l","_","0","1">>

\* the substrings inferTypeFromLegacyName looks for
Keywords ==
    {sphere, cube, box, cyl, cylinder, cone, torus, ring, disc, circle, plane,
     icosa, octa, dodeca, tetra}

\* the name in capitals
Shout(s) ==
    [i \in 1..Len(s) |->
        IF \E k \in 1..Len(LowerChars) : LowerChars[k] = s[i]
        THEN UpperChars[CHOOSE k \in 1..Len(LowerChars) : LowerChars[k] = s[i]]
        ELSE s[i]]

\* names of legacy props: none, names with no keyword, each keyword in
\* lower case and in capitals, and every two keywords one after the other
LegacyNames ==
    {<<>>, weird_blob, MySphere_02, Cyl_01, Crate}
        \cup Keywords
        \cup {Shout(k) : k \in Keywords}
        \cup {k1 \o k2 : k1 \in Keywords, k2 \in Keywords}

InitInfer ==
    /\ \E name \in LegacyNames :
            /\ world = [joints |-> Joints(<<Identity, QB>>),
                        props |-> WithIds(<<Prop(<<>>, name, <<7, 8, 9>>, QB, <<1, 1, 1>>)>>)]
            /\ scene = {1}
    /\ poseNotesEl = "old notes"
    /\ last = NoCall
    /\ imp = NoImport
    /\ gallery = <<>>
    /\ trace = <<>>
    /\ modes = ModesController(TRUE, TRUE, TRUE, TRUE)
    /\ modesCall = NoModesCall

\* serializePose({world, poseNotesEl}): the document is the call's result
SerializePose ==
    /\ last.op = "none"
    /\ Called("serializePose", serializePose(world, TRUE, poseNotesEl), AllDeps,
              [threw |-> FALSE, error |-> "", world |-> world, scene |-> scene,
               notes |-> poseNotesEl, log |-> <<>>, ret |-> 0])

\* applyPose on the document an older version saved of this world: the
\* descriptor carries the prop's name and no type
CallApplyLegacy ==
    /\ last.op = "none"
    /\ \E q \in {Undefined, QA} :
        ApplyPose([kind |-> "object", joints |-> [t |-> "undefined", m |-> <<>>],
                   props |-> [arr |-> TRUE,
                              v |-> <<Descriptor(<<>>, world.props[1].name,
                                                 Undefined, q, Undefined)>>],
                   notes |-> NoNotes],
                  AllDeps)

NextInfer == SerializePose \/ CallApplyLegacy

SpecInfer == InitInfer /\ [][NextInfer]_vars

\* the keyword occurs in the name, letter case apart
Occurs(name, kw) ==
    \E i \in 1..Len(name) :
        \A j \in 1..Len(kw) :
            /\ i + j - 1 <= Len(name)
            /\ LowerChar(name[i + j - 1]) = kw[j]

\* the type of the first row of the table whose keyword occurs in the name,
\* and cube when no row's keyword does
FirstMatch(table, name) ==
    LET hits == {i \in 1..Len(table) :
                    \E k \in table[i].kws : Occurs(name, k)}
    IN  IF hits = {} THEN cube
        ELSE table[CHOOSE i \in hits : \A j \in hits : i <= j].type

\* the keyword list as the claim gives it
StatedKeywords ==
    <<[kws |-> {sphere}, type |-> sphere], [kws |-> {cube, box}, type |-> cube],
      [kws |-> {cylinder}, type |-> cylinder], [kws |-> {cone}, type |-> cone],
      [kws |-> {torus}, type |-> torus], [kws |-> {ring}, type |-> ring],
      [kws |-> {disc, circle}, type |-> disc], [kws |-> {plane}, type |-> plane],
      [kws |-> {icosa}, type |-> icosa], [kws |-> {octa}, type |-> octa],
      [kws |-> {dodeca}, type |-> dodeca], [kws |-> {tetra}, type |-> tetra]>>

\* the same list with the keyword cyl for the type cylinder
CylKeywords == [StatedKeywords EXCEPT ![3] = [kws |-> {cyl}, type |-> cylinder]]

\* the type the serializer wrote for the legacy prop, and the type tag the
\* full apply stored for the legacy descriptor, are both the table's answer
InferredBy(table) ==
    /\ last.op = "serializePose" =>
        last.data.props.v[1].type = FirstMatch(table, world.props[1].name)
    /\ Returned("applyPose") =>
        /\ Len(world.props) = 1
        /\ world.props[1].type = FirstMatch(table, last.data.props.v[1].name)

\* C13 as stated: the type inferred from a name is that of the first of the
\* keywords sphere, cube/box, cylinder, cone, torus, ring, disc/circle, plane,
\* icosa, octa, dodeca, tetra occurring in the lowercased name, and cube when
\* none occurs, in the serializer and in the full apply alike.
C13_Original == InferredBy(StatedKeywords)

\* C13 amended: the same with the keyword cyl, not cylinder, for the type
\* cylinder: a name holding cyl and no earlier keyword gives cylinder.
C13_FirstKeywordWinsWithCyl == InferredBy(CylKeywords)

C13_Witness ==
    /\ Returned("applyPose")
    /\ last.data.props.v[1].name = box \o sphere
    /\ last.data.props.v[1].type = <<>>
    /\ world.props[1].type = sphere
    /\ world.props[1].quaternion = QA

(***************************************************************************)
(* Claims about the prop step when the factory appends nothing.            *)
(***************************************************************************)
PropWrites == {p \in 1..Len(last.log) : last.log[p].ev = "setProp"}

\* C14: in the prop step of applyPose a descriptor for which addProp appended
\* no entry to world.props is skipped: a prop is written only right after
\* the addProp call that appended it, so each live prop is written by one
\* descriptor only, the one it was created for.
C14_Original ==
    (last.op = "applyPose" /\ last.data.props.arr) =>
        /\ \A p \in PropWrites :
            /\ p > 1
            /\ last.log[p - 1].ev = "addProp"
            /\ last.log[p - 1].n = last.log[p].n
        /\ \A p, q \in PropWrites : last.log[p].n = last.log[q].n => p = q

(***************************************************************************)
(* SpecImport2: two importPosePack calls on the same world, each on its    *)
(* own batch; the calls interleave where they await a file's text.         *)
(***************************************************************************)
\* most files the two calls are handed, taken together
MaxInFlight == 3

\* two pose files whose documents set the same joint and the props
\* differently
ImportFiles2 ==
    {File(a_json, "ok", TRUE,
          PoseDoc([n \in {"hips"} |-> [arr |-> TRUE, v |-> QA]], <<D_Sphere>>)),
     File(d_json, "ok", TRUE,
          PoseDoc([n \in {"hips"} |-> [arr |-> TRUE, v |-> QB]], <<D_Legacy, D_Sphere>>))}

ImportDeps2 ==
    [applyPose : BOOLEAN, saveToGallery : {TRUE}, renderGallery : {TRUE},
     showToast : {TRUE}]

InitImport2 ==
    /\ world = [joints |-> Joints(<<Identity, QB>>), props |-> <<>>]
    /\ scene = {}
    /\ poseNotesEl = "old notes"
    /\ last = NoCall
    /\ imp = [c \in {1, 2} |-> NoActivation("idle")]
    /\ gallery = <<>>
    /\ trace = <<>>
    /\ modes = ModesController(TRUE, TRUE, TRUE, TRUE)
    /\ modesCall = NoModesCall

\* the application calls importPosePack; the other call may be in flight
CallImportPosePack2 ==
    \E c \in {1, 2} :
        /\ imp[c].pc = "idle"
        /\ \E files \in SeqsUpTo(ImportFiles2, MaxInFlight - Len(imp[3 - c].files)),
              deps \in ImportDeps2 :
                ImportPosePack(c, files, deps)

NextImport2 == CallImportPosePack2 \/ ReadSettles

SpecImport2 == InitImport2 /\ [][NextImport2]_vars

\* the pose shows the document: every joint the document gives a 4-element
\* array holds it, and the props are the document's descriptors, in order
Shows(pose, doc) ==
    /\ \A i \in 1..Len(pose.joints) :
        LET n == pose.joints[i].name IN
        (n \in DOMAIN doc.joints.m /\ doc.joints.m[n].arr /\ Len(doc.joints.m[n].v) = 4)
            => pose.joints[i].quaternion = doc.joints.m[n].v
    /\ Len(pose.props) = Len(doc.props.v)
    /\ \A i \in 1..Len(pose.props) :
        /\ doc.props.v[i].position # Undefined =>
                pose.props[i].position = doc.props.v[i].position
        /\ doc.props.v[i].name # <<>> => pose.props[i].name = doc.props.v[i].name

\* C15: with two importPosePack calls in flight on one world, the read,
\* parse, apply and save of a file are consecutive steps of the whole
\* program (no step of the other call comes between them), and every pose
\* saved by a call that applies shows the document of the file it is saved
\* for.
C15_ApplyAndSaveOfAFileStayTogether ==
    /\ \A p \in 1..Len(trace) :
        LET e == trace[p] IN
        /\ e.ev \in {"parse", "parse.raised"} =>
                p > 1 /\ trace[p - 1] = Step(e.c, e.k, "read")
        /\ e.ev \in {"apply", "apply.raised"} =>
                p > 1 /\ trace[p - 1] = Step(e.c, e.k, "parse")
        /\ e.ev \in {"save", "save.raised"} =>
                /\ p > 1
                /\ trace[p - 1] = Step(e.c, e.k, IF imp[e.c].deps.applyPose
                                                 THEN "apply" ELSE "parse")
    /\ \A g \in 1..Len(gallery) :
        imp[gallery[g].c].deps.applyPose =>
            Shows(gallery[g].pose, imp[gallery[g].c].files[gallery[g].k].text.doc)

C15_Witness ==
    /\ imp[1].pc = "done" /\ imp[2].pc = "done"
    /\ imp[1].deps.applyPose /\ imp[2].deps.applyPose
    /\ Len(imp[1].files) = 2 /\ Len(imp[2].files) = 1
    /\ SelectSeq(trace, LAMBDA e : e.ev \in {"read.start", "save"}) =
        <<Step(1, 1, "read.start"), Step(2, 1, "read.start"),
          Step(2, 1, "save"), Step(1, 1, "save"),
          Step(1, 2, "read.start"), Step(1, 2, "save")>>
    /\ imp[1].files[1].name = a_json /\ imp[2].files[1].name = d_json
    /\ gallery[1].pose.joints[1].quaternion = QB
    /\ gallery[2].pose.joints[1].quaternion = QA
    /\ Len(gallery[1].pose.props) = 2 /\ Len(gallery[2].pose.props) = 1

(***************************************************************************)
(* Claims about the hooks and the notes of a full apply.                   *)
(***************************************************************************)
HookEvents == {"updateOutline", "forceRenderOnce", "showToast"}

\* the hook calls of the call, in order
HookCalls == SelectSeq(last.log, LAMBDA e : e.ev \in HookEvents)

\* every joint, prop and notes write of the call precedes every hook call
HooksAfterMutations ==
    \A p, q \in 1..Len(last.log) :
        (last.log[p].ev \in HookEvents /\ last.log[q].ev \notin HookEvents) => q < p

\* the notes element holds document.notes when the document has a string
\* notes field and the element was supplied, and what it held before otherwise
NotesRestored ==
    poseNotesEl = IF last.deps.poseNotesEl /\ last.data.notes.str
                  THEN last.data.notes.v
                  ELSE last.pre.notes

\* C16 as stated: a full apply that returns calls the outline refresh, the
\* forced render and the "Pose loaded" notification exactly once each, in
\* that order, after every mutation, and restores the notes exactly when the
\* document carries a string and a notes element was supplied.
C16_Original ==
    Returned("applyPose") =>
        /\ HookCalls = <<Ev("updateOutline", "", 0), Ev("forceRenderOnce", "", 0),
                         Ev("showToast", "Pose loaded", 0)>>
        /\ HooksAfterMutations
        /\ NotesRestored

\* C16 amended: each of the three hooks that was supplied is called exactly
\* once, in that order and after every mutation; a hook that was not
\* supplied is not called; the notes as stated.
C16_SuppliedHooksOnceInOrderAfterMutations ==
    Returned("applyPose") =>
        /\ HookCalls =
            (IF last.deps.updateOutline THEN <<Ev("updateOutline", "", 0)>> ELSE <<>>)
            \o (IF last.deps.forceRenderOnce THEN <<Ev("forceRenderOnce", "", 0)>> ELSE <<>>)
            \o (IF last.deps.showToast THEN <<Ev("showToast", "Pose loaded", 0)>> ELSE <<>>)
        /\ HooksAfterMutations
        /\ NotesRestored

C16_Witness ==
    /\ Returned("applyPose")
    /\ last.deps.updateOutline /\ last.deps.forceRenderOnce /\ last.deps.showToast
    /\ last.deps.poseNotesEl /\ last.deps.addProp = "appends"
    /\ last.data.notes = [str |-> TRUE, v |-> "new notes"]
    /\ last.data.props.arr /\ Len(last.data.props.v) = 2
    /\ Len(last.pre.world.props) = 1
    /\ [i \in 1..Len(last.log) |-> last.log[i].ev] =
        <<"joint", "scene.remove", "props.clear", "addProp", "setProp",
          "addProp", "setProp", "poseNotesEl", "updateOutline",
          "forceRenderOnce", "showToast">>
    /\ poseNotesEl = "new notes"

(***************************************************************************)
(* SpecModes: a ModesController, constructed with or without a gizmo,      *)
(* orbit controls and a toast hook, receives calls, clicks, snap changes   *)
(* and the gizmo's dragging-changed events in any order.                   *)
(***************************************************************************)
SnapInputs ==
    {Num(0), Num(15), Num(0 - 5), NaN, PosInfinity, JsNull, JsUndefined,
     JsString(<<"1","5">>), JsString(<<"o","f","f">>), JsString(<<>>)}

InitModes ==
    /\ world = [joints |-> Joints(<<Identity, Identity>>), props |-> <<>>]
    /\ scene = {}
    /\ poseNotesEl = ""
    /\ last = NoCall
    /\ imp = NoImport
    /\ gallery = <<>>
    /\ trace = <<>>
    /\ \E gizmo \in BOOLEAN, orbit \in BOOLEAN, toast \in BOOLEAN :
            modes = ModesController(gizmo, orbit, toast, TRUE)
    /\ modesCall = NoModesCall

ModesStep(op, s, deg, value, m1) ==
    /\ modes' = m1
    /\ modesCall' = ModesCall(op, s, deg, value, m1 # modes)
    /\ UNCHANGED <<poseVars, importVars>>

SetMode(mode) == ModesStep("setMode", mode, JsUndefined, FALSE, setMode(modes, mode))

HandleShortcut(keyLower) ==
    ModesStep("handleShortcut", keyLower, JsUndefined, FALSE,
              handleShortcut(modes, keyLower))

ToggleAxis(key) ==
    ModesStep("toggleAxis", key, JsUndefined, FALSE, toggleAxis(modes, key))

SetSnapDeg(deg) == ModesStep("setSnapDeg", "", deg, FALSE, setSnapDeg(modes, deg))

\* lines 133-136: a click on a mode button
ClickModeButton(mode) ==
    /\ mode = "scale" => modes.ui.modeScale.present
    /\ ModesStep("click", mode, JsUndefined, FALSE, setMode(modes, mode))

\* lines 138-140: a click on an axis chip
ClickAxisChip(key) ==
    ModesStep("click", key, JsUndefined, FALSE, toggleAxis(modes, key))

\* lines 142-145: the user picks an option of the snap select
RotateSnapSelected(option) ==
    ModesStep("change", "", JsString(option), FALSE,
              rotateSnapChange([modes EXCEPT !.ui.rotateSnap = option]))

\* the gizmo starts a drag (only while it is enabled) or ends the one in
\* progress, and dispatches dragging-changed
DraggingChanged(value) ==
    /\ modes.gizmo.present
    /\ IF value THEN modes.gizmo.enabled /\ ~modes.gizmo.dragging
       ELSE modes.gizmo.dragging
    /\ ModesStep("dragging-changed", "", JsUndefined, value,
                 draggingChanged([modes EXCEPT !.gizmo.dragging = value], value))

NextModes ==
    \/ \E mode \in ModeNames \cup {"pan", "Rotate", ""} : SetMode(mode)
    \/ \E keyLower \in {"1", "2", "3", "4", "5", "r"} : HandleShortcut(keyLower)
    \/ \E key \in {"x", "y", "z", "w"} : ToggleAxis(key)
    \/ \E deg \in SnapInputs : SetSnapDeg(deg)
    \/ \E mode \in ModeNames : ClickModeButton(mode)
    \/ \E key \in {"x", "y", "z"} : ClickAxisChip(key)
    \/ \E option \in {<<"0">>, <<"5">>, <<"1","0">>, <<>>} : RotateSnapSelected(option)
    \/ \E value \in BOOLEAN : DraggingChanged(value)

SpecModes == InitModes /\ [][NextModes]_vars

(***************************************************************************)
(* Claims about the ModesController.                                       *)
(***************************************************************************)
\* C17: while a gizmo drag is in progress (after dragging-changed with value
\* true and before the next one with value false) the orbit controls are
\* not enabled, whatever calls arrive during the drag.
C17_Original ==
    (modes.gizmo.present /\ modes.orbit.present /\ modes.gizmo.dragging)
        => ~modes.orbit.enabled

\* C18: the gizmo is enabled exactly when the mode is not orbit, the orbit
\* controls are enabled only in orbit mode (so the two are never enabled
\* together), the mode is one of rotate, move, orbit, scale, and a setMode
\* with any other value changes nothing, after construction and after every
\* call, click, snap change and dragging-changed event.
C18_GizmoAndOrbitNeverEnabledTogether ==
    /\ modes.state.mode \in {"rotate", "move", "orbit", "scale"}
    /\ modes.gizmo.present => (modes.gizmo.enabled <=> modes.state.mode # "orbit")
    /\ modes.orbit.present => (modes.orbit.enabled => modes.state.mode = "orbit")
    /\ (modes.gizmo.present /\ modes.orbit.present) =>
            ~(modes.gizmo.enabled /\ modes.orbit.enabled)
    /\ (modesCall.op = "setMode"
            /\ modesCall.s \notin {"rotate", "move", "orbit", "scale"}) =>
                ~modesCall.changed

C18_Witness ==
    /\ modes.gizmo.present /\ modes.orbit.present
    /\ modesCall.op = "dragging-changed" /\ ~modesCall.value
    /\ modes.state.mode = "orbit"
    /\ modes.orbit.enabled /\ ~modes.gizmo.enabled
    /\ ~modes.gizmo.dragging

\* the gizmo's rotation snap is off
SnapOff == modes.gizmo.rotationSnap = [pi |-> 0, over |-> 0]

\* the value handed to setSnapDeg is no finite number
NotFinite(deg) ==
    \/ deg.t \in {"NaN", "Infinity", "undefined"}
    \/ deg.t = "string" /\ deg.s = <<"o","f","f">>

\* C19: with a gizmo, its rotation snap is the angle of snapDeg (in radians,
\* snapDeg * PI / 180) when the mode is rotate and snapDeg is above 0, and
\* null in every other state; a setSnapDeg with a value that is no finite
\* number stores snapDeg 0 and leaves the snap off.
C19_SnapOnlyInRotateMode ==
    /\ modes.gizmo.present =>
        IF modes.state.mode = "rotate" /\ modes.state.snapDeg > 0
        THEN /\ ~SnapOff
             /\ modes.gizmo.rotationSnap = [pi |-> modes.state.snapDeg, over |-> 180]
        ELSE SnapOff
    /\ (modesCall.op = "setSnapDeg" /\ NotFinite(modesCall.deg)) =>
        /\ modes.state.snapDeg = 0
        /\ modes.gizmo.present => SnapOff

C19_Witness ==
    /\ modes.gizmo.present
    /\ modesCall.op = "setSnapDeg" /\ modesCall.deg.t = "NaN"
    /\ modes.state.mode = "rotate"
    /\ modes.state.snapDeg = 0
    /\ SnapOff
    /\ modes.ui.rotateSnap = <<"0">>

====
